---- MODULE Spec2Model ----
(***************************************************************************)
(* A model of the Dynamo graph-execution client (src/service/dynamo.ts)    *)
(* and of the LocalScript page that drives it (src/pages/LocalScript.tsx). *)
(*                                                                         *)
(* The page is a single-threaded event loop: every action below is one     *)
(* macrotask (a click, a mount effect, the arrival of one HTTP response or *)
(* of the host platform's answers) together with the microtasks, renders   *)
(* and effects that follow it before the next event is taken.              *)
(***************************************************************************)
EXTENDS Integers, Sequences, FiniteSets, TLC

(***************************************************************************)
(* Bounds of the model.                                                    *)
(***************************************************************************)
\* info fetches in flight at once
MaxReloads == 2
\* run attempts in flight at once, where the behaviour lets runs overlap
MaxRuns == 2
\* non-terminal job states the job service reports before the terminal one
MaxK == 2

(***************************************************************************)
(* HTTP.                                                                   *)
(***************************************************************************)
\* the statuses the services answer with: 200, a 2xx that is not 200, 4xx, 5xx
Statuses == {200, 204, 404, 500}

\* the status of an error that is not a FetchError (err.status is undefined)
NoStatus == 0

Is2xx(status) == status >= 200 /\ status < 300

TrustMsg == "Graph is not trusted."
TrustSentinel == "GRAPH_NOT_TRUSTED"

\* the reason phrase a server sends by default
StatusText(status) ==
  CASE status = 200 -> "OK"
    [] status = 204 -> "No Content"
    [] status = 404 -> "Not Found"
    [] OTHER        -> "Internal Server Error"

\* class FetchError: an Error with a message and a status
FetchError(m, status) == [name |-> "FetchError", message |-> m, status |-> status]

\* what fetch() rejects with when the network fails
NetworkError == [name |-> "TypeError", message |-> "Failed to fetch", status |-> NoStatus]

\* what response.json() rejects with when the body is not JSON
SyntaxError == [name |-> "SyntaxError", message |-> "Unexpected token", status |-> NoStatus]

\* the absent error / absent value of a record field
NoError == [name |-> "", message |-> "", status |-> NoStatus]

(***************************************************************************)
(* Dynamo._fetch: the Authorization header the outgoing request carries.   *)
(* init is "noinit" (no RequestInit passed), "none" (a RequestInit with no *)
(* Authorization header) or "caller" (a RequestInit that has one already). *)
(* The result is "none", "caller" or "provider" (the injected token).      *)
(***************************************************************************)
_fetch(authProvider, init) ==
  IF authProvider /\ init # "noinit"
    THEN IF init # "caller" THEN "provider" ELSE "caller"
    ELSE IF init = "caller" THEN "caller" ELSE "none"

\* the global fetch(), used directly: no header is added
fetch(init) == IF init = "caller" THEN "caller" ELSE "none"

(***************************************************************************)
(* Run results.  A Run is abstracted to the identity of its content (tag)  *)
(* and the length of info.issues.                                          *)
(***************************************************************************)
Run(tag, issues) == [tag |-> tag, issues |-> issues]

NoRun == Run("none", 0)

\* the results the execution service can produce for a job or a sync run
ServiceRuns == {Run("r1", 0), Run("r2", 1)}

\* the JSON body of a non-2xx answer, e.g. {title: ...}: it is no Run
ErrorBody == Run("errorBody", 0)

\* runAsync: the job object the polling loop inspects on every iteration
job == [status |-> "COMPLETE", result |-> Run("stub", 2)]

\* the terminal job states the job service can report
Terminal == {"SUCCESS", "COMPLETE", "FAILED"}

(***************************************************************************)
(* runAsync, one iteration of the polling loop on the job object j:        *)
(* return its result, throw, or sleep 200 ms and iterate again.            *)
(***************************************************************************)
pollStep(j) ==
  IF j.status = "SUCCESS" \/ j.status = "COMPLETE"
    THEN [do |-> "return", value |-> j.result, error |-> NoError]
    ELSE IF j.status = "FAILED"
      THEN [do |-> "throw", value |-> NoRun, error |-> FetchError("Job failed", 500)]
      ELSE [do |-> "continue", value |-> NoRun, error |-> NoError]

\* a run that takes the synchronous path whatever the mode
useSyncAlways(runSync, urlIsLocalhost) == TRUE

\* Dynamo.run: the asynchronous job protocol is used unless this holds;
\* urlIsLocalhost is this.url.startsWith("http://localhost")
useSync(runSync, urlIsLocalhost) == ~(~runSync /\ ~urlIsLocalhost)

(***************************************************************************)
(* Dynamo.info on a settled response: the GraphInfo it resolves with or    *)
(* the error it rejects with.  A response is                               *)
(*   [net, status, statusText, json, title, graph]                         *)
(* net = FALSE: fetch rejected; json = FALSE: the body is not JSON; title  *)
(* is the body's title ("" when absent); graph is the body of a 200.       *)
(***************************************************************************)
info(response) ==
  IF ~response.net
    THEN [ok |-> FALSE, data |-> "", error |-> NetworkError]
    ELSE IF ~response.json
      THEN [ok |-> FALSE, data |-> "", error |-> SyntaxError]
      ELSE IF response.status = 200
        THEN [ok |-> TRUE, data |-> response.graph, error |-> NoError]
        ELSE [ok |-> FALSE, data |-> "",
              error |-> FetchError(IF response.title # "" THEN response.title
                                                          ELSE response.statusText,
                                   response.status)]

(***************************************************************************)
(* Values held by the UI and values submitted to the execution service.    *)
(* kind is the JavaScript type ("undefined", "string", "number",           *)
(* "boolean", "array"); kind "json" is a string produced by                *)
(* JSON.stringify, s naming what was encoded.                              *)
(***************************************************************************)
Value(kind, s, paths) == [kind |-> kind, s |-> s, paths |-> paths]

Undefined == Value("undefined", "", <<>>)
Str(s) == Value("string", s, <<>>)
Num(s) == Value("number", s, <<>>)
Bool(s) == Value("boolean", s, <<>>)
Paths(paths) == Value("array", "", paths)

\* JavaScript truthiness, as used by `value || []` and `if (input.value)`
Falsy(v) ==
  \/ v.kind = "undefined"
  \/ v.kind = "string" /\ v.s = ""
  \/ v.kind = "number" /\ v.s = "0"
  \/ v.kind = "boolean" /\ v.s = "false"

\* JSON.stringify(x): undefined for undefined, else a string holding JSON
JSONstringify(what, x) ==
  IF x.kind = "undefined" THEN Undefined ELSE Value("json", what, x.paths)

\* an object or array built by the code, to be encoded
Object == Value("object", "", <<>>)

\* the strings of the model that happen to be JSON texts
JsonTexts == {"5", "0", "true", "false"}

IsJsonString(v) == v.kind = "json" \/ (v.kind = "string" /\ v.s \in JsonTexts)

(***************************************************************************)
(* The host platform (Forma) as seen by one run attempt: whether           *)
(* getRootUrn resolves, whether the element/geometry/metrics queries       *)
(* resolve, and whether the model has a terrain path.                      *)
(***************************************************************************)
FormaAnswers == [root : BOOLEAN, queries : BOOLEAN, terrain : BOOLEAN]

Ok(v) == [ok |-> TRUE, value |-> v]
Throws == [ok |-> FALSE, value |-> Undefined]

\* `(value || []) as string[]` followed by paths.map(...)
orEmpty(value) == IF Falsy(value) THEN Paths(<<>>) ELSE value

(***************************************************************************)
(* LocalScript.onRun: the extraction strategy of one declared input, a     *)
(* chain of comparisons on its type and name.  value is state[id].         *)
(***************************************************************************)
materialize(input, value, forma) ==
  LET type == input.type
      name == input.name
      paths == orEmpty(value)
  IN
  IF type = "SelectElementsExperimental" THEN
    IF paths.kind # "array" \/ (paths.paths # <<>> /\ ~forma.queries)
      THEN Throws ELSE Ok(JSONstringify("elements,region", Paths(paths.paths)))
  ELSE IF type = "GetAllElementsExperimental" THEN
    IF ~forma.root THEN Throws ELSE Ok(JSONstringify("urn,region", Object))
  ELSE IF type = "GetProjectExperimental" THEN
    Ok(JSONstringify("projectId,region", Object))
  ELSE IF type = "GetTerrainExperimental" THEN
    IF ~forma.queries \/ ~forma.terrain
      THEN Throws ELSE Ok(JSONstringify("elements,region", Object))
  ELSE IF type \in {"FormaSelectElements", "FormaSelectElement", "SelectElements"} THEN
    IF paths.kind # "array" \/ (paths.paths # <<>> /\ ~forma.queries)
      THEN Throws ELSE Ok(JSONstringify("elements", Paths(paths.paths)))
  ELSE IF name = "GetFormaElements" \/ type = "GetAllElements" THEN
    IF ~forma.root \/ ~forma.queries
      THEN Throws ELSE Ok(JSONstringify("elements", Object))
  ELSE IF type = "FormaTerrain" THEN
    IF ~forma.queries THEN Throws ELSE Ok(JSONstringify("triangles", Object))
  ELSE IF type = "GetTerrain" THEN
    IF ~forma.queries
      THEN Throws
      ELSE Ok(JSONstringify("element", IF forma.terrain THEN Object ELSE Undefined))
  ELSE IF type \in {"FormaProject", "GetProject"} THEN
    IF ~forma.queries THEN Throws ELSE Ok(JSONstringify("project", Object))
  ELSE IF name = "Triangles" \/ type = "FormaSelectGeometry" THEN
    IF value.kind # "array" \/ (value.paths # <<>> /\ ~forma.queries)
      THEN Throws ELSE Ok(JSONstringify("triangles", value))
  ELSE IF name = "Footprint" \/ type = "FormaSelectFootprints" THEN
    IF value.kind # "array" \/ (value.paths # <<>> /\ ~forma.queries)
      THEN Throws ELSE Ok(JSONstringify("footprints", value))
  ELSE IF name = "Metrics" \/ type \in {"FormaSelectMetrics", "SelectMetrics"} THEN
    IF ~forma.queries THEN Throws ELSE Ok(JSONstringify("metrics", Object))
  ELSE Ok(value)

(***************************************************************************)
(* Graph infos the service can answer an info fetch with.                  *)
(***************************************************************************)
Input(id, name, type, value) == [id |-> id, name |-> name, type |-> type, value |-> value]

Graphs == {"gA", "gB"}

\* GraphInfo.inputs
inputs(graph) ==
  IF graph = "gA"
    THEN << Input("n1", "Flag", "boolean", "true"),
            Input("n2", "Project", "GetProjectExperimental", "") >>
    ELSE << Input("n1", "Pick", "SelectElementsExperimental", ""),
            Input("n2", "Terrain", "GetTerrainExperimental", "") >>

InputIds == {"n1", "n2"}

\* utils/node: the input is filled by selecting elements in the scene
isSelect(input) ==
  input.type \in {"SelectElementsExperimental", "FormaSelectElements", "FormaSelectElement",
                  "SelectElements", "FormaSelectGeometry", "FormaSelectFootprints",
                  "FormaSelectMetrics", "SelectMetrics"}

\* utils/node: the input is fetched from the model without user interaction
isGet(input) ==
  input.type \in {"GetAllElementsExperimental", "GetProjectExperimental",
                  "GetTerrainExperimental", "GetAllElements", "GetTerrain", "GetProject",
                  "FormaTerrain", "FormaProject"}

\* input.value.split(":")[0], on the declared values of the model
beforeColon(value) == IF value = "1:Option" THEN "1" ELSE value

\* a loop body that also enters select and get inputs and empty values
defaultOfEveryInput(st, input) == [st EXCEPT ![input.id] = Str(input.value)]

\* getDefaultValues, the body of its loop: the state after one more input
defaultOf(st, input) ==
  IF isSelect(input) \/ isGet(input) THEN st
  ELSE IF input.value = "" THEN st
  ELSE [st EXCEPT ![input.id] =
          IF input.type = "boolean"
            THEN Bool(IF input.value = "true" THEN "true" ELSE "false")
          ELSE IF input.type = "DSDropDownBase" \/ input.type = "CustomSelection"
            THEN Str(beforeColon(input.value))
          ELSE Str(input.value)]

\* the empty input state {}
emptyState == [id \in InputIds |-> Undefined]

RECURSIVE defaultsFrom(_, _)
defaultsFrom(ins, n) ==
  IF n = 0 THEN emptyState ELSE defaultOf(defaultsFrom(ins, n - 1), ins[n])

\* getDefaultValues of a loaded script info
getDefaultValues(graph) == defaultsFrom(inputs(graph), Len(inputs(graph)))

\* the values the input widgets and the select mode hand to setValue
widgetValues(input) ==
  IF isGet(input) THEN {}
  ELSE IF isSelect(input) THEN {Paths(<<"root">>)}
  ELSE IF input.type = "boolean" THEN {Bool("true"), Bool("false")}
  ELSE IF input.type = "number" THEN {Num("7")}
  ELSE {Str("abc")}

(***************************************************************************)
(* State.                                                                  *)
(***************************************************************************)
VARIABLES
  world,        \* which service the behaviour varies the answers of
  props,        \* what the page is mounted with: the service, the script
  scriptInfo,   \* useScript: the ScriptResult
  infoFlight,   \* the info fetches awaiting their response, in issue order
  state,        \* LocalScript: the input state
  result,       \* LocalScript: the RunResult
  runs,         \* the run attempts in flight, in start order
  infoFrom,     \* history: the info fetch the last step committed, if any
  settled,      \* history: the run attempt the last step settled, if any
  lastRequest,  \* history: the HTTP request the last step issued, if any
  edited,       \* history: the input the last step edited, if any
  captured,     \* history: the calls the last step's catch block made, in order
  target,       \* history: the GraphTarget the last step built, if any
  args,         \* the arguments of a call of one of the page's helper functions
  returned      \* what that call returned or threw, once it was made

vars == << world, props, scriptInfo, infoFlight, state, result, runs,
           infoFrom, settled, lastRequest, edited, captured, target, args, returned >>

\* the variables of the page: a call of a helper function leaves them alone
pageVars == << world, props, scriptInfo, infoFlight, state, result, runs,
               infoFrom, settled, lastRequest, edited, captured, target >>

\* the variables of a call of a helper function: the page leaves them alone
callVars == << args, returned >>

Props ==
  { p \in [runSync : BOOLEAN, urlIsLocalhost : BOOLEAN, authProvider : BOOLEAN,
           script : {"FolderGraph", "JSON"}, connected : BOOLEAN,
           unsupportedPackages : {0, 1}] :
      p.unsupportedPackages > 0 => p.script = "JSON" }

Request(req, auth) == [req |-> req, auth |-> auth]

NoRequest == Request("none", "none")

(***************************************************************************)
(* The answers to POST /v1/graph/info: fetch rejects, or a response with a *)
(* status, a reason phrase, and a body that is JSON (a GraphInfo on 200,   *)
(* else possibly with a title) or is not.  Where the behaviour varies the  *)
(* answers of the execution endpoints instead, the info endpoint answers   *)
(* with a graph or a plain 500.                                            *)
(***************************************************************************)
AllInfoResponses ==
  { r \in [net : BOOLEAN, status : {200, 404, 500}, statusText : {"std", TrustMsg},
           json : BOOLEAN, title : {"", TrustMsg, TrustSentinel}, graph : Graphs \cup {""}] :
      /\ (r.status = 200 /\ r.net /\ r.json) <=> r.graph # ""
      /\ r.statusText # "std" => (r.status # 200 /\ r.title = "")
      /\ r.title # "" => r.status # 200
      /\ ~r.net => (r.status = 200 /\ r.json)
      /\ ~r.json => (r.title = "" /\ r.statusText = "std" /\ r.status # 404) }

InfoResponses(w) ==
  IF w = "info" THEN AllInfoResponses
  ELSE { r \in AllInfoResponses :
           r.net /\ r.json /\ r.statusText = "std" /\ r.title = "" /\ r.status \in {200, 500} }

\* the response with its reason phrase spelled out
withStatusText(r) ==
  [r EXCEPT !.statusText = IF r.statusText = "std" THEN StatusText(r.status) ELSE r.statusText]

(***************************************************************************)
(* The answers to a request of a run: fetch rejects, or a response with a  *)
(* status and a body that is JSON or is not.  Where the behaviour varies   *)
(* the answers of the info endpoint instead, the execution endpoints       *)
(* answer 200 or 500 with a JSON body.                                     *)
(***************************************************************************)
AllResponses ==
  { r \in [net : BOOLEAN, status : Statuses, json : BOOLEAN] :
      ~r.net => (r.status = 200 /\ r.json) }

Responses(w) ==
  IF w = "run" THEN AllResponses
  ELSE { r \in AllResponses : r.net /\ r.json /\ r.status \in {200, 500} }

\* the answers to a request whose body the client does not read
BodilessResponses(w) == { r \in Responses(w) : r.json }

\* what the job service holds for a job: k non-terminal reports, then a
\* terminal status, with a result
NoSvc == [k |-> 0, status |-> "", result |-> NoRun]

JobScripts(w) ==
  IF w = "run" THEN [k : 0..MaxK, status : Terminal, result : {Run("r1", 0)}]
  ELSE {[k |-> 0, status |-> "COMPLETE", result |-> Run("r1", 0)]}

\* the bodies of a 2xx answer to POST /v1/graph/run
SyncBodies(w) == IF w = "run" THEN ServiceRuns ELSE {Run("r1", 0)}

ScriptResult(type, data) == [type |-> type, data |-> data]

RunResult(type, data, error) == [type |-> type, data |-> data, error |-> error]

(***************************************************************************)
(* Run attempts.  pc is the await the attempt is suspended at:             *)
(*   "extract"  the host platform's answers (lines 348-478)                *)
(*   "create"   the response of GET /v1/graph/job/create                   *)
(*   "upload"   the response of PUT <uploadUrl>                            *)
(*   "trigger"  the response of POST /v1/graph/job/{jobId}/run             *)
(*   "polling"  the 200 ms sleep of the polling loop                       *)
(*   "sync"     the response of POST /v1/graph/run                         *)
(*   "resolved", "rejected": settled.                                      *)
(* state and code are the input state and graph info onRun closed over;    *)
(* log is the requests issued, in order; inputs the RunInputs submitted.   *)
(* History: got (the statuses of the responses received, got[i] answering  *)
(* log[i], NoStatus for a fetch that rejected), svc (what the job service  *)
(* holds for the job), out (the RunResult the attempt set when it          *)
(* settled).                                                               *)
(***************************************************************************)
NoAttempt == [pc |-> "none", state |-> emptyState, code |-> "", log |-> << >>,
              inputs |-> << >>, failed |-> {}, got |-> << >>, svc |-> NoSvc,
              out |-> RunResult("init", NoRun, NoError)]

\* no input was edited
NoEdit == [id |-> "none", before |-> "none"]

(***************************************************************************)
(* GraphTarget: `path` of a PathGraphTarget, `graph` and `contents` of a   *)
(* JsonGraphTarget; "" is an absent field.                                 *)
(***************************************************************************)
GraphTarget(type, path, graph, contents) ==
  [type |-> type, path |-> path, graph |-> graph, contents |-> contents]

\* useScript.reload: the target of the info call
infoTarget(script) ==
  IF script = "JSON"
    THEN GraphTarget("JsonGraphTarget", "", "script.graph", "")
    ELSE GraphTarget("PathGraphTarget", "script.id", "", "")

\* a run target that names the stored graph and carries the inline graph too
runTargetBoth(script, id) ==
  GraphTarget("PathGraphTarget", id, "", "JSON.stringify(script.graph)")

\* LocalScript.onRun: the target of the run call; id is scriptInfo.data.id
runTarget(script, id) ==
  IF script = "FolderGraph"
    THEN GraphTarget("PathGraphTarget", id, "", "")
    ELSE GraphTarget("JsonGraphTarget", "", "", "JSON.stringify(script.graph)")

\* the target the step built for a call of Dynamo.info or Dynamo.run
Built(call, value) == [call |-> call, value |-> value]

NoTarget == Built("none", GraphTarget("", "", "", ""))

\* no helper function is being called
NoCall == [fn |-> "none"]

\* the call was not made yet
NoReturn == [fn |-> "none"]

NoFetch == [fetch |-> "none", status |-> NoStatus, title |-> ""]

\* Every mounting is explored with the answers of the execution endpoints
\* varied; the answers of the info endpoint are varied for a folder graph
\* opened without the sync flag; run attempts that overlap are explored for a
\* connected folder graph with a token provider and without the sync flag.
Init ==
  /\ world \in {"run", "info", "overlap"}
  /\ props \in Props
  /\ world = "info" => (~props.runSync /\ props.script = "FolderGraph")
  /\ world = "overlap" =>
       /\ ~props.runSync /\ props.script = "FolderGraph"
       /\ props.connected /\ props.authProvider
  /\ scriptInfo = ScriptResult("init", "")
  /\ infoFlight = << >>
  /\ state = emptyState
  /\ result = RunResult("init", NoRun, NoError)
  /\ runs = << >>
  /\ infoFrom = NoFetch
  /\ settled = NoAttempt
  /\ lastRequest = NoRequest
  /\ edited = NoEdit
  /\ captured = << >>
  /\ target = NoTarget
  /\ args = NoCall
  /\ returned = NoReturn

\* a banner that shows for every successful run
WarningBannerOnSuccess(res) == res.type = "success"

\* LocalScript, lines 651-660: the warnings banner is rendered
WarningBanner(res) == res.type = "success" /\ res.data.issues > 0

\* a sequence without its i-th element
without(seq, i) == [j \in 1..(Len(seq) - 1) |-> IF j < i THEN seq[j] ELSE seq[j + 1]]

(***************************************************************************)
(* useScript.reload: set "loading" and issue the info fetch.  A fetch in   *)
(* flight is "latest" while no later reload has been issued.               *)
(***************************************************************************)
reload ==
  /\ Len(infoFlight) < MaxReloads
  /\ scriptInfo' = ScriptResult("loading", "")
  /\ infoFlight' = Append([i \in DOMAIN infoFlight |-> "earlier"], "latest")
  /\ lastRequest' = Request("info", _fetch(props.authProvider, "none"))
  /\ infoFrom' = NoFetch
  /\ settled' = NoAttempt
  /\ edited' = NoEdit
  /\ captured' = << >>
  /\ target' = Built("info", infoTarget(props.script))
  /\ UNCHANGED << world, props, state, result, runs >>
  /\ UNCHANGED callVars

\* the effect that runs reload once the page is mounted
Mount ==
  /\ scriptInfo.type = "init"
  /\ reload

\* the Update button
ClickUpdate ==
  /\ scriptInfo.type # "init"
  /\ reload

(***************************************************************************)
(* reload's then/catch on the settled Dynamo.info.                         *)
(***************************************************************************)
commit(outcome) ==
  IF outcome.ok
    THEN ScriptResult("loaded", outcome.data)
    ELSE IF outcome.error.status = 500 /\ outcome.error.message = TrustMsg
      THEN ScriptResult("error", TrustSentinel)
      ELSE ScriptResult("error", outcome.error.message)

(***************************************************************************)
(* The response of the i-th info fetch in flight arrives: Dynamo.info      *)
(* settles and reload commits the script state; on "loaded" the effects    *)
(* replace the input state by the defaults and reset the run result.       *)
(***************************************************************************)
InfoResponse(i) ==
  /\ i \in DOMAIN infoFlight
  /\ \E r \in InfoResponses(world) :
       LET outcome == info(withStatusText(r))
       IN  /\ scriptInfo' = commit(outcome)
           /\ infoFrom' = [fetch |-> infoFlight[i],
                           status |-> IF r.net THEN r.status ELSE NoStatus,
                           title |-> r.title]
           /\ IF outcome.ok
                THEN /\ state' = getDefaultValues(outcome.data)
                     /\ result' = RunResult("init", NoRun, NoError)
                ELSE UNCHANGED << state, result >>
  /\ infoFlight' = without(infoFlight, i)
  /\ settled' = NoAttempt
  /\ lastRequest' = NoRequest
  /\ edited' = NoEdit
  /\ captured' = << >>
  /\ target' = NoTarget
  /\ UNCHANGED << world, props, runs >>
  /\ UNCHANGED callVars

(***************************************************************************)
(* setValue(id, value) from an input widget, and the effect on [state]     *)
(* that resets the run result.                                             *)
(***************************************************************************)
\* an edit that leaves the run result on display
setValueKeepingResult(id, value) ==
  /\ state' = [state EXCEPT ![id] = value]
  /\ UNCHANGED result

setValue(id, value) ==
  /\ state' = [state EXCEPT ![id] = value]
  /\ result' = RunResult("init", NoRun, NoError)

EditInput ==
  /\ scriptInfo.type = "loaded"
  /\ \E n \in 1..Len(inputs(scriptInfo.data)) :
       \E value \in widgetValues(inputs(scriptInfo.data)[n]) :
         /\ setValue(inputs(scriptInfo.data)[n].id, value)
         /\ edited' = [id |-> inputs(scriptInfo.data)[n].id, before |-> result.type]
  /\ infoFrom' = NoFetch
  /\ settled' = NoAttempt
  /\ lastRequest' = NoRequest
  /\ captured' = << >>
  /\ target' = NoTarget
  /\ UNCHANGED << world, props, scriptInfo, infoFlight, runs >>
  /\ UNCHANGED callVars

\* how often a request occurs in a log
RECURSIVE countOf(_, _)
countOf(log, req) ==
  IF log = << >> THEN 0
  ELSE (IF Head(log) = req THEN 1 ELSE 0) + countOf(Tail(log), req)

\* the attempt after it received a response
received(run, response) ==
  [run EXCEPT !.got = Append(@, IF response.net THEN response.status ELSE NoStatus)]

\* a status check that lets every status below 400 pass
notOkBelow400(status) == status >= 400

\* a status check that lets every status pass
notOkNever(status) == FALSE

\* runAsync, lines 155 and 177: the status that makes the call throw
notOk(status) == status # 200

\* an extraction that submits what it has when an input's extraction fails
extractPartial(code, st, forma) ==
  [ok |-> TRUE,
   inputs |-> [n \in 1..Len(inputs(code)) |->
                 [nodeId |-> inputs(code)[n].id,
                  value |-> materialize(inputs(code)[n], st[inputs(code)[n].id], forma).value]],
   failed |-> {n \in 1..Len(inputs(code)) :
                 ~materialize(inputs(code)[n], st[inputs(code)[n].id], forma).ok}
              \cup (IF forma.root THEN {} ELSE {0})]

\* LocalScript.onRun, lines 348-478: the RunInputs, or a rejection.  failed is
\* history: the awaits that rejected (0 for getRootUrn, n for the n-th input).
extract(code, st, forma) ==
  LET outs == [n \in 1..Len(inputs(code)) |->
                 materialize(inputs(code)[n], st[inputs(code)[n].id], forma)]
      failed == {n \in DOMAIN outs : ~outs[n].ok} \cup (IF forma.root THEN {} ELSE {0})
  IN  IF ~forma.root \/ \E n \in DOMAIN outs : ~outs[n].ok
        THEN [ok |-> FALSE, inputs |-> << >>, failed |-> failed]
        ELSE [ok |-> TRUE,
              inputs |-> [n \in DOMAIN outs |->
                            [nodeId |-> inputs(code)[n].id, value |-> outs[n].value]],
              failed |-> failed]

\* onRun, lines 484-487: `setResult({type: "success", data})` of attempt r
resolve(r, run, data) ==
  /\ runs' = without(runs, r)
  /\ result' = RunResult("success", data, NoError)
  /\ settled' = [run EXCEPT !.pc = "resolved", !.out = RunResult("success", data, NoError)]
  /\ lastRequest' = NoRequest
  /\ captured' = << >>

\* a call made by the catch block
Call(fn, arg) == [fn |-> fn, arg |-> arg]

\* a catch block that sets the error result without reporting the exception
catchSilently(e) ==
  << Call("console.error", e), Call("setResult", RunResult("error", NoRun, e)) >>

\* onRun, lines 488-492: the calls of the catch block, in order
catch(e) ==
  << Call("console.error", e),
     Call("captureException", e),
     Call("setResult", RunResult("error", NoRun, e)) >>

\* the catch block of attempt r runs: the attempt threw error
reject(r, run, error) ==
  /\ runs' = without(runs, r)
  /\ captured' = catch(error)
  /\ result' = captured'[Len(captured')].arg
  /\ settled' = [run EXCEPT !.pc = "rejected", !.out = result']
  /\ lastRequest' = NoRequest

\* a client that issues every request of a run a second time
sendTwice(r, run, req, auth, pc) ==
  /\ runs' = [runs EXCEPT ![r] = [run EXCEPT !.pc = pc, !.log = Append(Append(@, req), req)]]
  /\ lastRequest' = Request(req, auth)
  /\ settled' = NoAttempt
  /\ captured' = << >>
  /\ UNCHANGED result

\* attempt r issues a request and suspends on its response
send(r, run, req, auth, pc) ==
  /\ runs' = [runs EXCEPT ![r] = [run EXCEPT !.pc = pc, !.log = Append(@, req)]]
  /\ lastRequest' = Request(req, auth)
  /\ settled' = NoAttempt
  /\ captured' = << >>
  /\ UNCHANGED result

\* the run attempts that may be in flight at once
RunsAtOnce(w) == IF w = "overlap" THEN MaxRuns ELSE 1

\* an onRun without its test of the script state
returnsEarlyNever(type) == FALSE

\* onRun, lines 343-345: `if (scriptInfo.type !== "loaded") return`
returnsEarly(type) == type # "loaded"

\* onRun up to its first await: it returns at once (an attempt that settles
\* as "returned"), or sets 'running' and starts the extraction
onRun ==
  /\ IF returnsEarly(scriptInfo.type)
       THEN /\ settled' = [NoAttempt EXCEPT !.pc = "returned"]
            /\ UNCHANGED << result, runs >>
       ELSE /\ result' = RunResult("running", NoRun, NoError)
            /\ runs' = Append(runs, [NoAttempt EXCEPT !.pc = "extract", !.state = state,
                                                      !.code = scriptInfo.data])
            /\ settled' = NoAttempt
  /\ infoFrom' = NoFetch
  /\ lastRequest' = NoRequest
  /\ edited' = NoEdit
  /\ captured' = << >>
  /\ target' = NoTarget
  /\ UNCHANGED << world, props, scriptInfo, infoFlight, state >>
  /\ UNCHANGED callVars

\* the Run button, enabled, is clicked
ClickRun ==
  /\ ~( props.connected = FALSE
        \/ result.type = "running"
        \/ scriptInfo.type # "loaded"
        \/ props.unsupportedPackages > 0 )
  /\ Len(runs) < RunsAtOnce(world)
  /\ scriptInfo.type = "loaded"
  /\ onRun

\* onRun is called while no script is loaded: a click that reaches the handler
\* although the Run button is disabled
onRunNotLoaded ==
  /\ scriptInfo.type # "loaded"
  /\ Len(runs) < RunsAtOnce(world)
  /\ onRun

\* the host platform has answered: extraction ends and Dynamo.run is called
Extracted(r) ==
  /\ r \in DOMAIN runs
  /\ runs[r].pc = "extract"
  /\ \E forma \in FormaAnswers :
       LET x == extract(runs[r].code, runs[r].state, forma)
           run == [runs[r] EXCEPT !.inputs = x.inputs, !.failed = x.failed]
       IN  IF ~x.ok
             THEN /\ reject(r, run, [name |-> "Error", message |-> "extraction",
                                     status |-> NoStatus])
                  /\ target' = NoTarget
             ELSE /\ target' = Built("run", runTarget(props.script, runs[r].code))
                  /\ IF useSync(props.runSync, props.urlIsLocalhost)
                       THEN send(r, run, "run", _fetch(props.authProvider, "none"), "sync")
                       ELSE send(r, run, "create", _fetch(props.authProvider, "none"),
                                 "create")
  /\ infoFrom' = NoFetch
  /\ edited' = NoEdit
  /\ UNCHANGED << world, props, scriptInfo, infoFlight, state >>
  /\ UNCHANGED callVars

\* runAsync, lines 153-171
CreateResponse(r) ==
  /\ r \in DOMAIN runs
  /\ runs[r].pc = "create"
  /\ \E response \in Responses(world) :
       LET run == received(runs[r], response)
       IN  IF ~response.net
             THEN reject(r, run, NetworkError)
           ELSE IF notOk(response.status)
             THEN reject(r, run, FetchError(StatusText(response.status), response.status))
           ELSE IF ~response.json
             THEN reject(r, run, SyntaxError)
           ELSE send(r, run, "upload", fetch("none"), "upload")
  /\ infoFrom' = NoFetch
  /\ edited' = NoEdit
  /\ target' = NoTarget
  /\ UNCHANGED << world, props, scriptInfo, infoFlight, state >>
  /\ UNCHANGED callVars

\* runAsync, lines 161-175
UploadResponse(r) ==
  /\ r \in DOMAIN runs
  /\ runs[r].pc = "upload"
  /\ \E response \in BodilessResponses(world) :
       LET run == received(runs[r], response)
       IN  IF ~response.net
             THEN reject(r, run, NetworkError)
             ELSE send(r, run, "trigger", _fetch(props.authProvider, "none"), "trigger")
  /\ infoFrom' = NoFetch
  /\ edited' = NoEdit
  /\ target' = NoTarget
  /\ UNCHANGED << world, props, scriptInfo, infoFlight, state >>
  /\ UNCHANGED callVars

\* runAsync, lines 173-246: the trigger's response and the polling loop.  The
\* loop inspects the same job object on every iteration, so it either leaves
\* in its first iteration or sleeps and iterates for ever ("polling").
TriggerResponse(r) ==
  /\ r \in DOMAIN runs
  /\ runs[r].pc = "trigger"
  /\ \E response \in BodilessResponses(world), svc \in JobScripts(world) :
       LET got == received(runs[r], response)
           run == [got EXCEPT !.svc = svc]
           step == pollStep(job)
       IN  IF ~response.net
             THEN reject(r, got, NetworkError)
           ELSE IF notOk(response.status)
             THEN reject(r, got, FetchError(StatusText(response.status), response.status))
           ELSE IF step.do = "return" THEN resolve(r, run, step.value)
           ELSE IF step.do = "throw" THEN reject(r, run, step.error)
           ELSE /\ runs' = [runs EXCEPT ![r] = [run EXCEPT !.pc = "polling"]]
                /\ settled' = NoAttempt
                /\ lastRequest' = NoRequest
                /\ captured' = << >>
                /\ UNCHANGED result
  /\ infoFrom' = NoFetch
  /\ edited' = NoEdit
  /\ target' = NoTarget
  /\ UNCHANGED << world, props, scriptInfo, infoFlight, state >>
  /\ UNCHANGED callVars

\* Dynamo.run, lines 254-266
SyncResponse(r) ==
  /\ r \in DOMAIN runs
  /\ runs[r].pc = "sync"
  /\ \E response \in Responses(world), body \in SyncBodies(world) :
       LET run == received(runs[r], response)
       IN  IF ~response.net THEN reject(r, run, NetworkError)
           ELSE IF ~response.json THEN reject(r, run, SyntaxError)
           ELSE resolve(r, run, IF Is2xx(response.status) THEN body ELSE ErrorBody)
  /\ infoFrom' = NoFetch
  /\ edited' = NoEdit
  /\ target' = NoTarget
  /\ UNCHANGED << world, props, scriptInfo, infoFlight, state >>
  /\ UNCHANGED callVars

(***************************************************************************)
(* The other calls of the client.  The folder listing and the server probe *)
(* are made before a script is opened, the trust call by the untrusted-    *)
(* graph notice; their answers are handled outside this page.              *)
(***************************************************************************)
other(req, init) ==
  /\ lastRequest' = Request(req, _fetch(props.authProvider, init))
  /\ infoFrom' = NoFetch
  /\ settled' = NoAttempt
  /\ edited' = NoEdit
  /\ captured' = << >>
  /\ target' = NoTarget
  /\ UNCHANGED << world, props, scriptInfo, infoFlight, state, result, runs >>
  /\ UNCHANGED callVars

folder ==
  /\ scriptInfo.type = "init"
  /\ other("folder", "none")

serverInfo ==
  /\ scriptInfo.type = "init"
  /\ other("serverInfo", "noinit")

trust ==
  /\ scriptInfo = ScriptResult("error", TrustSentinel)
  /\ other("trust", "none")

Next ==
  \/ Mount
  \/ ClickUpdate
  \/ \E i \in 1..MaxReloads : InfoResponse(i)
  \/ EditInput
  \/ ClickRun
  \/ onRunNotLoaded
  \/ \E r \in 1..MaxRuns : Extracted(r)
  \/ \E r \in 1..MaxRuns : CreateResponse(r)
  \/ \E r \in 1..MaxRuns : UploadResponse(r)
  \/ \E r \in 1..MaxRuns : TriggerResponse(r)
  \/ \E r \in 1..MaxRuns : SyncResponse(r)
  \/ folder
  \/ serverInfo
  \/ trust

Spec == Init /\ [][Next]_vars

(***************************************************************************)
(* The helper functions of the page, called on their own.                  *)
(*                                                                         *)
(* A snapshot is what Forma.elements.get({urn, recursive: true}) answers:  *)
(* `elements`, a map from URN to element, an element being its list of     *)
(* children {key, urn}.  The root element is u0, its children are among u1 *)
(* and u2, theirs among u3 and u4; two references may name one element.    *)
(* The URN "gone" is in no snapshot.  A path "root/a/b" is the sequence    *)
(* << "root", "a", "b" >>; no key contains a "/".                          *)
(***************************************************************************)
Keys == {"a", "b"}

urn == "u0"

Level1 == {"u1", "u2"}

Level2 == {"u3", "u4"}

Gone == "gone"

Child(key, to) == [key |-> key, urn |-> to]

\* the lists of children, with distinct keys, that refer to the given URNs
ChildLists(urns) ==
  {<< >>}
    \cup { << Child(k, u) >> : k \in Keys, u \in urns }
    \cup { << Child(c[1], c[3]), Child(c[2], c[4]) >> :
             c \in { d \in Keys \X Keys \X urns \X urns : d[1] # d[2] } }

Snapshots ==
  { [u \in {urn} \cup Level1 \cup Level2 |->
       IF u = urn THEN c[1]
       ELSE IF u = "u1" THEN c[2]
       ELSE IF u = "u2" THEN c[3]
       ELSE << >>] :
      c \in ChildLists(Level1 \cup {Gone}) \X ChildLists(Level2 \cup {Gone})
               \X ChildLists(Level2 \cup {Gone}) }

\* elements[u]: the element, or undefined
lookup(elements, u) ==
  IF u \in DOMAIN elements
    THEN [defined |-> TRUE, children |-> elements[u]]
    ELSE [defined |-> FALSE, children |-> << >>]

\* children.find((child) => child.key === key): the first such child, if any
find(children, key) ==
  IF \E i \in DOMAIN children : children[i].key = key
    THEN LET i == CHOOSE j \in DOMAIN children :
                    /\ children[j].key = key
                    /\ \A h \in 1..(j - 1) : children[h].key # key
         IN  [found |-> TRUE, urn |-> children[i].urn]
    ELSE [found |-> FALSE, urn |-> ""]

\* what a call threw
Threw(name, message, path) == [name |-> name, message |-> message, path |-> path]

NoThrow == Threw("", "", << >>)

\* reading a property of undefined
TypeError == Threw("TypeError", "Cannot read properties of undefined", << >>)

\* getAllPaths.getElementsByPath, the loop over the keys of the path
RECURSIVE follow(_, _, _, _)
follow(elements, element, keys, path) ==
  IF keys = << >> THEN [threw |-> NoThrow, element |-> element]
  ELSE IF ~element.defined THEN [threw |-> TypeError, element |-> element]
  ELSE LET child == find(element.children, Head(keys))
       IN  IF ~child.found
             THEN [threw |-> Threw("Error", "Element not found at path", path),
                   element |-> element]
             ELSE follow(elements, lookup(elements, child.urn), Tail(keys), path)

\* getAllPaths.getElementsByPath
getElementsByPath(elements, path) ==
  IF path = << "root" >>
    THEN [threw |-> NoThrow, element |-> lookup(elements, urn)]
    ELSE follow(elements, lookup(elements, urn), Tail(path), path)

\* a walk that lists the path it is given and does not descend
findAllPathsShallow(elements, path) == [threw |-> NoThrow, paths |-> << path >>]

\* getAllPaths.findAllPaths, and its loop over the children of the element
RECURSIVE findAllPaths(_, _), pathsOfChildren(_, _, _, _)
findAllPaths(elements, path) ==
  LET got == getElementsByPath(elements, path)
  IN  IF got.threw # NoThrow THEN [threw |-> got.threw, paths |-> << >>]
      ELSE IF ~got.element.defined THEN [threw |-> TypeError, paths |-> << >>]
      ELSE pathsOfChildren(elements, path, got.element.children, << path >>)

pathsOfChildren(elements, path, children, paths) ==
  IF children = << >> THEN [threw |-> NoThrow, paths |-> paths]
  ELSE LET sub == findAllPaths(elements, Append(path, Head(children).key))
       IN  IF sub.threw # NoThrow THEN sub
           ELSE pathsOfChildren(elements, path, Tail(children), paths \o sub.paths)

getAllPaths(elements) == findAllPaths(elements, << "root" >>)

\* Forma.elements.getByPath({path}).element: the URN of the element the host
\* has at the path, "" where it has none
RECURSIVE getByPath(_, _)
getByPath(elements, path) ==
  IF Len(path) = 1 THEN urn
  ELSE LET parent == getByPath(elements, SubSeq(path, 1, Len(path) - 1))
           child == IF parent \in DOMAIN elements
                      THEN find(elements[parent], path[Len(path)])
                      ELSE [found |-> FALSE, urn |-> ""]
       IN  IF child.found THEN child.urn ELSE ""

\* a read that leaves out the paths the host has no element for
readElementsByPathsFound(elements, paths) ==
  LET found == SelectSeq(paths, LAMBDA path : getByPath(elements, path) \in DOMAIN elements)
  IN  [index \in DOMAIN found |->
         [path |-> found[index], element |-> getByPath(elements, found[index])]]

\* readElementsByPaths: one bundle for every path, in the order of the paths;
\* of a bundle the model keeps its element, and as history its path
readElementsByPaths(elements, paths) ==
  [index \in DOMAIN paths |->
     [path |-> paths[index], element |-> getByPath(elements, paths[index])]]

(***************************************************************************)
(* getVolume25DForSubTree, lines 192-210: a feature under the world        *)
(* transform of its node.  Of the transform the model keeps the vertical   *)
(* scale transform[10] and the vertical translation transform[14]; of the  *)
(* feature its height and its optional elevation.                          *)
(***************************************************************************)
Present(v) == [present |-> TRUE, v |-> v]

Absent == [present |-> FALSE, v |-> 0]

\* x ?? y
nullish(x, y) == IF x.present THEN x.v ELSE y

Transforms == [ {10, 14} -> {-2, 0, 1, 3} ]

Features == [height : {0, 4}, elevation : {Absent, Present(0), Present(2), Present(-1)}]

\* an elevation to which the vertical translation is not added
elevationUntranslated(elevation, transform) == nullish(elevation, 0 * transform[10])

\* line 201: (feature.properties.elevation ?? 0 * transform[10]) + transform[14]
elevationOf(elevation, transform) ==
  nullish(elevation, 0 * transform[10]) + transform[14]

\* lines 196-202: the properties of the transformed feature
transformFeature(feature, transform) ==
  [feature EXCEPT !.height = feature.height * transform[10],
                  !.elevation = elevationOf(feature.elevation, transform)]

(***************************************************************************)
(* createSelectionPredicate.  A string (a feature id, the value of a rule) *)
(* is the sequence of its characters.  A selection is {type, value}; its   *)
(* type is "undefined" when the representation has no selection.           *)
(***************************************************************************)
Strings == { << >>, << "a" >>, << "a", "b" >>, << "a", "b", "c" >>, << "x", "a", "b" >> }

Selections ==
  [type : {"undefined", "equals", "startsWith", "contains"},
   value : { << "a" >>, << "a", "b" >> }]

\* a test for the value anywhere in the string
includes(s, v) ==
  \E i \in 1..(Len(s) + 1) : i + Len(v) - 1 <= Len(s) /\ SubSeq(s, i, i + Len(v) - 1) = v

\* String.prototype.startsWith
startsWith(s, v) == Len(v) <= Len(s) /\ SubSeq(s, 1, Len(v)) = v

\* createSelectionPredicate: the predicate returned (named by the case that
\* built it), or the Error thrown
createSelectionPredicate(selection) ==
  CASE selection.type = "undefined"  -> [threw |-> NoThrow, predicate |-> "true"]
    [] selection.type = "equals"     -> [threw |-> NoThrow, predicate |-> "equals"]
    [] selection.type = "startsWith" -> [threw |-> NoThrow, predicate |-> "startsWith"]
    [] OTHER -> [threw |-> Threw("Error", "Invalid selection", << >>), predicate |-> ""]

\* the predicate applied to a feature id
selectionPredicate(predicate, selection, value) ==
  CASE predicate = "true"   -> TRUE
    [] predicate = "equals" -> value = selection.value
    [] OTHER                -> startsWith(value, selection.value)

(***************************************************************************)
(* getVolume25DForSubTree.  A subtree is what                              *)
(* Forma.elements.getByPath({path, recursive: true}) answers for the path  *)
(* << "root" >>: `elements` as above and, for every element, its           *)
(* volume25DCollection representation {type, features, selection}, with    *)
(* type "undefined" for an element without one; the features of a "linked" *)
(* representation are those its blob holds.                                *)
(***************************************************************************)
Feature(id, height, elevation) == [id |-> id, height |-> height, elevation |-> elevation]

Representation(type, features, selection) ==
  [type |-> type, features |-> features, selection |-> selection]

NoSelection == [type |-> "undefined", value |-> << >>]

Representations ==
  { Representation("undefined", << >>, NoSelection),
    Representation("embedded-json", << Feature(<< "a" >>, 4, Absent) >>, NoSelection),
    Representation("embedded-json",
                   << Feature(<< "a", "b" >>, 4, Present(2)),
                      Feature(<< "x", "a", "b" >>, 0, Absent),
                      Feature(<< "a", "b", "c" >>, 0, Present(0)) >>,
                   [type |-> "startsWith", value |-> << "a", "b" >>]),
    Representation("linked", << Feature(<< "a" >>, 4, Present(-1)),
                                Feature(<< "a", "b" >>, 0, Absent) >>,
                   [type |-> "equals", value |-> << "a" >>]),
    Representation("embedded-json", << Feature(<< "a" >>, 4, Absent) >>,
                   [type |-> "contains", value |-> << "a" >>]),
    Representation("terrain", << Feature(<< "a" >>, 4, Absent) >>, NoSelection) }

\* the subtrees: the root with no child, one child or two children (which may
\* be one element), the first child with or without a child of its own
SubTreeElements ==
  { [u \in {urn, "u1", "u2", "u3"} |->
       IF u = urn THEN c[1] ELSE IF u = "u1" THEN c[2] ELSE << >>] :
      c \in { << >>, << Child("a", "u1") >>,
               << Child("a", "u1"), Child("b", "u2") >>,
               << Child("a", "u1"), Child("b", "u1") >> }
             \X { << >>, << Child("a", "u3") >> } }

SubTrees ==
  { [elements |-> e, representations |-> r] :
      e \in SubTreeElements, r \in [ {urn, "u1", "u2", "u3"} -> Representations ] }

\* Forma.elements.getWorldTransform({path}).transform: the host's world
\* transform of the path, its vertical scale and vertical translation
getWorldTransform(path) ==
  CASE path = << "root", "a" >>      -> (10 :> 2 @@ 14 :> 5)
    [] path = << "root", "b" >>      -> (10 :> 3 @@ 14 :> -2)
    [] path = << "root", "a", "a" >> -> (10 :> -2 @@ 14 :> 1)
    [] OTHER                         -> (10 :> 1 @@ 14 :> 0)

\* a loader that resolves embedded representations only
loadVolume25CollectionEmbedded(representation) ==
  IF representation.type = "embedded-json"
    THEN [present |-> TRUE, features |-> representation.features]
    ELSE [present |-> FALSE, features |-> << >>]

\* loadVolume25Collection: the collection, or undefined
loadVolume25Collection(representation) ==
  CASE representation.type = "undefined" -> [present |-> FALSE, features |-> << >>]
    [] representation.type = "linked" ->
         [present |-> TRUE, features |-> representation.features]
    [] representation.type = "embedded-json" ->
         [present |-> TRUE, features |-> representation.features]
    [] OTHER -> [present |-> FALSE, features |-> << >>]

\* children.map: the stack entries {path, element} of the children
stackEntries(path, children) ==
  [i \in DOMAIN children |->
     [path |-> Append(path, children[i].key), element |-> children[i].urn]]

\* .flat(): the features of the collections, in order
RECURSIVE flat(_)
flat(collections) ==
  IF collections = << >> THEN << >> ELSE Head(collections) \o flat(Tail(collections))

\* getVolume25DForSubTree, lines 175-216: the while loop on the stack
RECURSIVE whileStack(_, _, _)
whileStack(subtree, stack, collections) ==
  IF stack = << >> THEN [threw |-> NoThrow, collections |-> collections]
  ELSE
    LET top == stack[Len(stack)]
        element == lookup(subtree.elements, top.element)
        pushed == SubSeq(stack, 1, Len(stack) - 1) \o stackEntries(top.path, element.children)
    IN  IF ~element.defined THEN [threw |-> TypeError, collections |-> << >>]
        ELSE
          LET volume25DCollectionRep == subtree.representations[top.element]
              volume25DCollection == loadVolume25Collection(volume25DCollectionRep)
              transform == getWorldTransform(top.path)
              made == createSelectionPredicate(volume25DCollectionRep.selection)
              filtered == SelectSeq(volume25DCollection.features,
                                    LAMBDA f : selectionPredicate(made.predicate,
                                                 volume25DCollectionRep.selection, f.id))
          IN  IF ~volume25DCollection.present
                THEN whileStack(subtree, pushed, collections)
              ELSE IF made.threw # NoThrow
                THEN [threw |-> made.threw, collections |-> << >>]
              ELSE whileStack(subtree, pushed,
                              Append(collections,
                                     [i \in DOMAIN filtered |->
                                        transformFeature(filtered[i], transform)]))

\* getVolume25DForSubTree: the value returned, or the error thrown
getVolume25DForSubTree(subtree, path) ==
  LET walked == whileStack(subtree, << [path |-> path, element |-> urn] >>, << >>)
  IN  [threw |-> walked.threw,
       value |-> IF walked.threw # NoThrow
                   THEN [present |-> FALSE, type |-> "", features |-> << >>]
                   ELSE [present |-> TRUE, type |-> "FeatureCollection",
                         features |-> flat(walked.collections)]]

(***************************************************************************)
(* onRun, lines 352-376: the extraction of a SelectElementsExperimental    *)
(* input, on the selected paths.                                           *)
(***************************************************************************)
\* the paths a user can select in the scene
SelectablePaths ==
  { << "root" >>, << "root", "a" >>, << "root", "b" >>, << "root", "a", "a" >> }

\* the selections (the UI-held values): no, one or two paths of the model
Selected(elements) ==
  LET there == { p \in SelectablePaths : getByPath(elements, p) \in DOMAIN elements }
  IN  {<< >>} \cup { << p >> : p \in there }
        \cup { << c[1], c[2] >> : c \in { d \in there \X there : d[1] # d[2] } }

\* lines 359-362: [1, 0, 0, 0, 0, 1, 0, 0, 0, 0, 1, 0, 0, 0, 0, 1] for the
\* root, else the host's world transform of the path
worldTransform(path) ==
  IF path = << "root" >> THEN (10 :> 1 @@ 14 :> 0) ELSE getWorldTransform(path)

\* lines 356-364: paths.map(...)
selectedElements(elements, paths) ==
  [i \in DOMAIN paths |->
     [urn |-> getByPath(elements, paths[i]), worldTransform |-> worldTransform(paths[i])]]

\* lines 366-369: elements.forEach((element) => elementMap[element.urn] = ...)
RECURSIVE elementMap(_)
elementMap(selected) ==
  IF selected = << >> THEN << >>
  ELSE LET before == elementMap(SubSeq(selected, 1, Len(selected) - 1))
           element == selected[Len(selected)]
       IN  (element.urn :> element.worldTransform) @@ before

\* the calls made: getAllPaths on a snapshot, a feature under a transform, a
\* selection predicate built and applied to an id, getVolume25DForSubTree on
\* a subtree, the element map of a selection
Calls ==
  { [fn |-> "getAllPaths", elements |-> e] : e \in Snapshots }
    \cup { [fn |-> "createSelectionPredicate", selection |-> c[1], id |-> c[2]] :
             c \in Selections \X Strings }
    \cup { [fn |-> "getVolume25DForSubTree", subtree |-> t] : t \in SubTrees }
    \cup UNION { { [fn |-> "elementMap", elements |-> e, paths |-> paths] :
                     paths \in Selected(e) } : e \in SubTreeElements }
    \cup { [fn |-> "transformFeature", feature |-> c[1], transform |-> c[2]] :
             c \in Features \X Transforms }

\* the page as it is while a helper function is called
CallInit ==
  /\ world = "run"
  /\ props = [runSync |-> FALSE, urlIsLocalhost |-> FALSE, authProvider |-> TRUE,
              script |-> "FolderGraph", connected |-> TRUE, unsupportedPackages |-> 0]
  /\ scriptInfo = ScriptResult("loaded", "gB")
  /\ infoFlight = << >>
  /\ state = emptyState
  /\ result = RunResult("running", NoRun, NoError)
  /\ runs = << >>
  /\ infoFrom = NoFetch
  /\ settled = NoAttempt
  /\ lastRequest = NoRequest
  /\ edited = NoEdit
  /\ captured = << >>
  /\ target = NoTarget
  /\ args \in Calls
  /\ returned = NoReturn

\* onRun, line 409: `await getAllPaths()`
CallGetAllPaths ==
  /\ args.fn = "getAllPaths"
  /\ returned.fn = "none"
  /\ returned' = [fn |-> "getAllPaths",
                  threw |-> getAllPaths(args.elements).threw,
                  paths |-> getAllPaths(args.elements).paths]
  /\ UNCHANGED args
  /\ UNCHANGED pageVars

\* onRun, line 410: `await readElementsByPaths(paths)` on the paths returned
CallReadElementsByPaths ==
  /\ returned.fn = "getAllPaths"
  /\ returned.threw = NoThrow
  /\ returned' = [fn |-> "readElementsByPaths",
                  threw |-> NoThrow,
                  paths |-> returned.paths,
                  bundles |-> readElementsByPaths(args.elements, returned.paths)]
  /\ UNCHANGED args
  /\ UNCHANGED pageVars

\* getVolume25DForSubTree, lines 194-210, on one feature
CallTransformFeature ==
  /\ args.fn = "transformFeature"
  /\ returned.fn = "none"
  /\ returned' = [fn |-> "transformFeature",
                  feature |-> transformFeature(args.feature, args.transform)]
  /\ UNCHANGED args
  /\ UNCHANGED pageVars

\* getVolume25DForSubTree, lines 188-191: the predicate is built and a
\* feature id is tested with it
CallCreateSelectionPredicate ==
  /\ args.fn = "createSelectionPredicate"
  /\ returned.fn = "none"
  /\ LET made == createSelectionPredicate(args.selection)
     IN  returned' = [fn |-> "createSelectionPredicate",
                      threw |-> made.threw,
                      keeps |-> IF made.threw = NoThrow
                                  THEN selectionPredicate(made.predicate, args.selection,
                                                          args.id)
                                  ELSE FALSE]
  /\ UNCHANGED args
  /\ UNCHANGED pageVars

\* readElementsByPaths, line 247: `getVolume25DForSubTree(path)`
CallGetVolume25DForSubTree ==
  /\ args.fn = "getVolume25DForSubTree"
  /\ returned.fn = "none"
  /\ LET got == getVolume25DForSubTree(args.subtree, << "root" >>)
     IN  returned' = [fn |-> "getVolume25DForSubTree", threw |-> got.threw, value |-> got.value]
  /\ UNCHANGED args
  /\ UNCHANGED pageVars

\* onRun, lines 352-376, for one SelectElementsExperimental input
CallElementMap ==
  /\ args.fn = "elementMap"
  /\ returned.fn = "none"
  /\ returned' = [fn |-> "elementMap",
                  elementMap |-> elementMap(selectedElements(args.elements, args.paths))]
  /\ UNCHANGED args
  /\ UNCHANGED pageVars

CallNext ==
  \/ CallElementMap
  \/ CallGetVolume25DForSubTree
  \/ CallGetAllPaths
  \/ CallReadElementsByPaths
  \/ CallTransformFeature
  \/ CallCreateSelectionPredicate

CallSpec == CallInit /\ [][CallNext]_vars

(***************************************************************************)
(* Properties.                                                             *)
(***************************************************************************)
\* the run attempts of the state: those in flight and the one just settled
Attempts ==
  { runs[r] : r \in DOMAIN runs } \cup (IF settled.pc = "none" THEN {} ELSE {settled})

\* the page uses the asynchronous job protocol
Async == ~useSync(props.runSync, props.urlIsLocalhost)

\* a log in the order create, upload, trigger, then polls only
InOrder(log) ==
  \A i \in DOMAIN log :
    log[i] = (CASE i = 1 -> "create" [] i = 2 -> "upload" [] i = 3 -> "trigger"
                [] OTHER -> "poll")

\* a response with a status (the fetch did not reject) other than 200
Non200(status) == status # 200 /\ status # NoStatus

\* a non-2xx response was received by the attempt
GotNon2xx(a) == \E i \in DOMAIN a.got : a.got[i] # NoStatus /\ ~Is2xx(a.got[i])

\* C1: in an asynchronous run the requests are issued in the order create,
\* upload, trigger, poll; a create-job response with a status other than 200
\* makes the run fail with a FetchError carrying that status and its status
\* text, and no upload or trigger request is issued.
C1_CreateJobFailure ==
  Async =>
    \A a \in Attempts :
      /\ InOrder(a.log)
      /\ (Len(a.got) >= 1 /\ Non200(a.got[1])) =>
           /\ a.pc = "rejected"
           /\ a.out = RunResult("error", NoRun, FetchError(StatusText(a.got[1]), a.got[1]))
           /\ a.log = << "create" >>

\* C1 witness: an asynchronous attempt has just failed on a 500 from job create
C1_Witness ==
  /\ Async
  /\ settled.pc = "rejected"
  /\ settled.log = << "create" >>
  /\ settled.got = << 500 >>
  /\ result.type = "error"

\* C5: a trigger response with a status other than 200 makes the run fail
\* with a FetchError carrying that status; no poll is made and no result is
\* returned.
C5_TriggerFailure ==
  \A a \in Attempts :
    (Len(a.got) >= 3 /\ a.log[3] = "trigger" /\ Non200(a.got[3])) =>
      /\ a.pc = "rejected"
      /\ a.out = RunResult("error", NoRun, FetchError(StatusText(a.got[3]), a.got[3]))
      /\ countOf(a.log, "poll") = 0
      /\ result = a.out

\* C5 witness: an attempt has just failed on a 404 from the trigger
C5_Witness ==
  /\ settled.pc = "rejected"
  /\ settled.log = << "create", "upload", "trigger" >>
  /\ settled.got = << 200, 200, 404 >>

\* C2: when the job service reports k non-terminal states and then COMPLETE
\* with a result, the run makes exactly k + 1 polls and resolves with that
\* result.
C2_PollsUntilComplete ==
  (settled.pc # "none" /\ settled.svc.status = "COMPLETE") =>
    /\ settled.pc = "resolved"
    /\ countOf(settled.log, "poll") = settled.svc.k + 1
    /\ settled.out = RunResult("success", settled.svc.result, NoError)

\* C3: in the polling step a job state of SUCCESS or COMPLETE ends the run
\* with the job's result, FAILED ends it with the job-failure error, and every
\* other reported state costs one more poll and does not end the run.
C3_JobStateDecides ==
  (settled.pc # "none" /\ settled.svc.status # "") =>
    /\ countOf(settled.log, "poll") = settled.svc.k + 1
    /\ IF settled.svc.status = "FAILED"
         THEN settled.out = RunResult("error", NoRun, FetchError("Job failed", 500))
         ELSE settled.out = RunResult("success", settled.svc.result, NoError)

\* C4: a run attempt that received a non-2xx response ends in the error
\* result state, never in the success state.
C4_Non2xxFailsTheRun ==
  (settled.pc # "none" /\ GotNon2xx(settled)) =>
    /\ settled.out.type = "error"
    /\ result.type = "error"

\* C6: a failed info fetch leaves the untrusted-graph state exactly when the
\* status is 500 and the body's title is "Graph is not trusted."; every other
\* failure leaves a generic error state.
C6_UntrustedIffTitleAnd500 ==
  (infoFrom.fetch # "none" /\ scriptInfo.type = "error") =>
    ( scriptInfo.data = TrustSentinel
        <=> (infoFrom.status = 500 /\ infoFrom.title = TrustMsg) )

\* C7: with a token provider configured every outgoing request carries an
\* Authorization header.
C7_EveryRequestAuthorized ==
  (props.authProvider /\ lastRequest.req # "none") => lastRequest.auth # "none"

\* C8: every {nodeId, value} pair submitted to the execution service has a
\* value that is a JSON-encoded string.
C8_ValuesAreJsonStrings ==
  \A a \in Attempts :
    \A n \in DOMAIN a.inputs : IsJsonString(a.inputs[n].value)

\* C9: a run that resolves commits its result only if the input state is
\* still the one the run was started from.
C9_NoStaleRunResult ==
  (settled.pc = "resolved" /\ result.type = "success") => settled.state = state

\* C10: once every info fetch has settled, the script state is the outcome of
\* the most recently issued reload.
C10_LatestReloadWins ==
  (infoFlight = << >> /\ infoFrom.fetch # "none") => infoFrom.fetch = "latest"

\* C11: after an edit of an input value the result state is 'init', whatever
\* it was before; and the result is always one whole 'init', 'running',
\* 'success' or 'error' value that carries nothing of a previous result.
C11_EditResetsResult ==
  /\ edited.id # "none" => result = RunResult("init", NoRun, NoError)
  /\ result.type \in {"init", "running", "success", "error"}
  /\ result.type \in {"init", "running"} => (result.data = NoRun /\ result.error = NoError)
  /\ result.type = "success" => result.error = NoError
  /\ result.type = "error" => result.data = NoRun

\* C11 witness: an input was just edited while a success result was on display
C11_Witness ==
  /\ edited.id = "n1"
  /\ edited.before = "success"
  /\ result.type = "init"

\* C12: an attempt in which the extraction of an input failed has sent no
\* request to the execution service and ends in the error result state.
C12_ExtractionFailureSendsNothing ==
  \A a \in Attempts :
    a.failed # {} =>
      /\ a.log = << >>
      /\ a.pc = "rejected"
      /\ a.out.type = "error"
      /\ result = a.out

\* C12 witness: of two inputs the extraction of the second alone failed, and
\* the attempt has just ended in the error state without a request
C12_Witness ==
  /\ settled.pc = "rejected"
  /\ settled.failed = {2}
  /\ settled.log = << >>
  /\ result.type = "error"

\* the catch block reported exception e and only then set the error result
ReportedBeforeError(e) ==
  \E i, j \in DOMAIN captured :
    /\ i < j
    /\ captured[i] = Call("captureException", e)
    /\ captured[j] = Call("setResult", RunResult("error", NoRun, e))

\* C13: a step in which a run attempt is rejected, or in which the result
\* state becomes 'error', reports the exception to captureException before it
\* sets the error result.
C13_ReportedBeforeError ==
  [][ (settled'.pc = "rejected" \/ (result'.type = "error" /\ result' # result))
        => /\ result'.type = "error"
           /\ ReportedBeforeError(result.error)' ]_vars

\* C13 witness: a service call has just thrown and was reported
C13_Witness ==
  /\ settled.pc = "rejected"
  /\ settled.log # << >>
  /\ result.type = "error"
  /\ \E i \in DOMAIN captured : captured[i].fn = "captureException"

\* C14: the target built for an info call or a run call is the path-based
\* variant for a stored folder graph and the inline-JSON variant for an inline
\* JSON script, so the two calls agree; a path-based target carries no inline
\* graph and an inline-JSON target no path; every info request and every run
\* has its target.
C14_OneTargetVariant ==
  /\ lastRequest.req = "info" => target.call = "info"
  /\ lastRequest.req \in {"run", "create"} => target.call = "run"
  /\ target.call # "none" =>
       /\ target.value.type \in {"PathGraphTarget", "JsonGraphTarget"}
       /\ target.value.type = "PathGraphTarget" <=> props.script = "FolderGraph"
       /\ target.value.type = "JsonGraphTarget" <=> props.script = "JSON"
       /\ target.value.type = "PathGraphTarget" =>
            /\ target.value.path # ""
            /\ target.value.graph = "" /\ target.value.contents = ""
       /\ target.value.type = "JsonGraphTarget" =>
            /\ target.value.path = ""
            /\ target.value.graph # "" \/ target.value.contents # ""

\* C14 witness: a run target was just built for an inline JSON script
C14_Witness ==
  /\ props.script = "JSON"
  /\ target.call = "run"
  /\ target.value.type = "JsonGraphTarget"
  /\ lastRequest.req \in {"run", "create"}

\* the designated low-latency mode: the sync flag, or a localhost service URL
LowLatencyMode == props.runSync \/ props.urlIsLocalhost

\* C15: a run issues POST /v1/graph/run only in the low-latency mode and
\* then issues nothing else; outside that mode it issues the requests of the
\* job protocol only.
C15_SyncOnlyInLowLatencyMode ==
  \A a \in Attempts :
    /\ countOf(a.log, "run") > 0 => (LowLatencyMode /\ a.log = << "run" >>)
    /\ (~LowLatencyMode /\ a.log # << >>) => (InOrder(a.log) /\ countOf(a.log, "run") = 0)
    /\ (LowLatencyMode /\ a.log # << >>) => a.log = << "run" >>

\* C15 witness: a run on a localhost service without the sync flag has just
\* resolved after its single POST /v1/graph/run
C15_Witness ==
  /\ ~props.runSync
  /\ props.urlIsLocalhost
  /\ settled.pc = "resolved"
  /\ settled.log = << "run" >>

\* C16: a run attempt issues at most one execute request (the trigger or
\* POST /v1/graph/run) and at most one job-create request, whatever was
\* answered.
C16_NoSilentRetry ==
  \A a \in Attempts :
    /\ countOf(a.log, "trigger") + countOf(a.log, "run") <= 1
    /\ countOf(a.log, "create") <= 1

\* C16 witness: an attempt has just failed on a 500 from the trigger, having
\* triggered once
C16_Witness ==
  /\ settled.pc = "rejected"
  /\ settled.got = << 200, 200, 500 >>
  /\ countOf(settled.log, "trigger") = 1
  /\ countOf(settled.log, "create") = 1

\* C17: a run that returned a result with issues ends in the 'success' state
\* with the banner shown; and the warnings banner is shown exactly when the
\* result state is 'success' and the issues list is not empty.
C17_IssuesAreWarnings ==
  /\ (settled.pc = "resolved" /\ settled.out.data.issues > 0) =>
       /\ result = settled.out
       /\ result.type = "success"
       /\ WarningBanner(result)
  /\ WarningBanner(result) <=> (result.type = "success" /\ result.data.issues > 0)

\* C17 witness: a synchronous run has just returned the service's result with
\* one issue, and the banner is shown
C17_Witness ==
  /\ settled.pc = "resolved"
  /\ settled.log = << "run" >>
  /\ settled.out.data = Run("r2", 1)
  /\ result.type = "success"
  /\ WarningBanner(result)

\* the paths of at most three keys
CandidatePaths ==
  { << "root" >> }
    \cup { << "root", k >> : k \in Keys }
    \cup { << "root", k[1], k[2] >> : k \in Keys \X Keys }
    \cup { << "root", k[1], k[2], k[3] >> : k \in Keys \X Keys \X Keys }

\* the element the path leads to by following child keys from the root: its
\* URN, Gone for a reference to an element the snapshot lacks, "" for no child
RECURSIVE Leads(_, _)
Leads(elements, p) ==
  IF Len(p) = 1 THEN urn
  ELSE LET parent == Leads(elements, SubSeq(p, 1, Len(p) - 1))
       IN  IF parent \notin DOMAIN elements THEN ""
           ELSE IF \E i \in DOMAIN elements[parent] : elements[parent][i].key = p[Len(p)]
             THEN (CHOOSE c \in { elements[parent][i] : i \in DOMAIN elements[parent] } :
                     c.key = p[Len(p)]).urn
             ELSE ""

\* the paths reachable from the root, and those that end at a missing element
Reachable(elements) == { p \in CandidatePaths : Leads(elements, p) \in DOMAIN elements }

Dangling(elements) == { p \in CandidatePaths : Leads(elements, p) = Gone }

\* p is a proper prefix of q
Ancestor(p, q) == Len(p) < Len(q) /\ SubSeq(q, 1, Len(p)) = p

\* C18: on a snapshot in which every child reference resolves, getAllPaths
\* returns the paths reachable from the root by child keys, each exactly once,
\* the root first and every path before its descendants; readElementsByPaths
\* on that list gives one bundle for every path, in the same order.
C18_AllPathsOncePreOrder ==
  (returned.fn \in {"getAllPaths", "readElementsByPaths"} /\ Dangling(args.elements) = {}) =>
    /\ returned.threw = NoThrow
    /\ { returned.paths[i] : i \in DOMAIN returned.paths } = Reachable(args.elements)
    /\ \A i, j \in DOMAIN returned.paths :
         /\ returned.paths[i] = returned.paths[j] => i = j
         /\ Ancestor(returned.paths[i], returned.paths[j]) => i < j
    /\ returned.paths[1] = << "root" >>
    /\ returned.fn = "readElementsByPaths" =>
         /\ Len(returned.bundles) = Len(returned.paths)
         /\ \A i \in DOMAIN returned.paths :
              /\ returned.bundles[i].path = returned.paths[i]
              /\ returned.bundles[i].element = Leads(args.elements, returned.paths[i])

\* C18 witness: a tree of three levels in which the root and a child of it
\* have two children each was walked, and the bundles of its five paths read
C18_Witness ==
  /\ returned.fn = "readElementsByPaths"
  /\ Dangling(args.elements) = {}
  /\ Len(args.elements[urn]) = 2
  /\ \E u \in Level1 : Len(args.elements[u]) = 2 /\ args.elements[urn][1].urn = u
  /\ Len(returned.bundles) >= 5

\* C19: when a child reference met during the walk names an element the
\* snapshot lacks, getAllPaths throws "Element not found at path <path>" and
\* returns no paths.
C19_MissingChildIsElementNotFound ==
  (returned.fn = "getAllPaths" /\ Dangling(args.elements) # {}) =>
    /\ returned.paths = << >>
    /\ returned.threw.message = "Element not found at path"
    /\ returned.threw.path \in Dangling(args.elements)

\* C20: a feature without elevation gets the vertical translation of the
\* transform as its elevation, whatever the vertical scale.
C20_AbsentElevationIsTranslation ==
  (returned.fn = "transformFeature" /\ ~args.feature.elevation.present) =>
    returned.feature.elevation = args.transform[14]

\* C20 witness: a feature without elevation under a transform of vertical
\* scale 3 and vertical translation -2
C20_Witness ==
  /\ returned.fn = "transformFeature"
  /\ ~args.feature.elevation.present
  /\ args.transform[10] = 3
  /\ args.transform[14] = -2
  /\ returned.feature.elevation = -2

\* C21: without a rule every id is kept; equals(v) keeps exactly the ids
\* equal to v; startsWith(v) keeps exactly the ids that are v followed by
\* something; every other kind of rule throws the configuration error and
\* gives no predicate.
C21_SelectionPredicate ==
  returned.fn = "createSelectionPredicate" =>
    LET rule == args.selection
    IN  /\ rule.type = "undefined" => (returned.threw = NoThrow /\ returned.keeps)
        /\ rule.type = "equals" =>
             (returned.threw = NoThrow /\ (returned.keeps <=> args.id = rule.value))
        /\ rule.type = "startsWith" =>
             /\ returned.threw = NoThrow
             /\ returned.keeps <=> \E rest \in Strings \cup {<< "c" >>, << "b" >>, << "b", "c" >>} :
                                      args.id = rule.value \o rest
        /\ rule.type \notin {"undefined", "equals", "startsWith"} =>
             (returned.threw.message = "Invalid selection" /\ ~returned.keeps)

\* C21 witness: startsWith("ab") was applied to "xab" and did not keep it
C21_Witness ==
  /\ returned.fn = "createSelectionPredicate"
  /\ args.selection = [type |-> "startsWith", value |-> << "a", "b" >>]
  /\ args.id = << "x", "a", "b" >>
  /\ ~returned.keeps

\* the nodes of the subtree, and those that carry a volume-feature collection
Nodes(subtree) == Reachable(subtree.elements)

RepresentationAt(subtree, p) == subtree.representations[Leads(subtree.elements, p)]

Carrying(subtree) ==
  { p \in Nodes(subtree) : RepresentationAt(subtree, p).type \in {"linked", "embedded-json"} }

\* the selection rule keeps the id
Keeps(rule, id) ==
  \/ rule.type = "undefined"
  \/ rule.type = "equals" /\ id = rule.value
  \/ rule.type = "startsWith" /\ Len(rule.value) <= Len(id)
       /\ \A i \in DOMAIN rule.value : id[i] = rule.value[i]

\* every collection of the subtree has a rule of a known kind
ValidRules(subtree) ==
  \A p \in Carrying(subtree) :
    RepresentationAt(subtree, p).selection.type \in {"undefined", "equals", "startsWith"}

\* the retained features of the subtree: << p, i >> is the i-th feature of the
\* collection at node p
Contributions(subtree) ==
  UNION { { << p, i >> : i \in { j \in DOMAIN RepresentationAt(subtree, p).features :
                                  Keeps(RepresentationAt(subtree, p).selection,
                                        RepresentationAt(subtree, p).features[j].id) } } :
          p \in Carrying(subtree) }

\* a retained feature with its height multiplied by the vertical scale of its
\* node and its elevation (zero when absent) offset by the vertical translation
Contributed(subtree, c) ==
  LET f == RepresentationAt(subtree, c[1]).features[c[2]]
      transform == getWorldTransform(c[1])
  IN  Feature(f.id, f.height * transform[10],
              (IF f.elevation.present THEN f.elevation.v ELSE 0) + transform[14])

\* C22: the merged collection of a subtree whose rules are of known kinds
\* holds, as often as they are contributed, exactly the features retained at
\* the nodes that carry a collection, each under the world transform of its
\* own node: height times the vertical scale, elevation plus the vertical
\* translation.
C22_MergedVolumeCollection ==
  (returned.fn = "getVolume25DForSubTree" /\ ValidRules(args.subtree)) =>
    /\ returned.threw = NoThrow
    /\ \A f \in { Contributed(args.subtree, c) : c \in Contributions(args.subtree) }
                \cup { returned.value.features[j] : j \in DOMAIN returned.value.features } :
         Cardinality({ c \in Contributions(args.subtree) : Contributed(args.subtree, c) = f })
           = Cardinality({ j \in DOMAIN returned.value.features :
                             returned.value.features[j] = f })

\* C22 witness: a subtree whose root has one element as both of its children;
\* that element's collection has contributed once under each child's transform
C22_Witness ==
  /\ returned.fn = "getVolume25DForSubTree"
  /\ ValidRules(args.subtree)
  /\ args.subtree.elements[urn] = << Child("a", "u1"), Child("b", "u1") >>
  /\ args.subtree.representations["u1"].type = "linked"
  /\ args.subtree.representations[urn].type = "undefined"
  /\ \E i, j \in DOMAIN returned.value.features :
       /\ returned.value.features[i] = Feature(<< "a" >>, 8, 4)
       /\ returned.value.features[j] = Feature(<< "a" >>, 12, -3)

\* C23: a feature with elevation e gets S * e + T as its elevation under a
\* transform of vertical scale S and vertical translation T.
C23_PresentElevationIsScaled ==
  (returned.fn = "transformFeature" /\ args.feature.elevation.present) =>
    returned.feature.elevation
      = args.transform[10] * args.feature.elevation.v + args.transform[14]

\* C24: for a subtree that contributes no feature the loader returns no
\* collection, and for every other subtree one feature collection.
C24_NoCollectionWhenEmpty ==
  (returned.fn = "getVolume25DForSubTree" /\ returned.threw = NoThrow) =>
    IF Contributions(args.subtree) = {}
      THEN ~returned.value.present
      ELSE returned.value.present /\ returned.value.type = "FeatureCollection"

\* C25: the element map of a selection has, for every selected path, an entry
\* under the URN of the path's element whose value is the world transform of
\* that path (the identity for the root), also when two selected paths lead
\* to the same element.
C25_ElementMapKeepsEveryPath ==
  returned.fn = "elementMap" =>
    \A i \in DOMAIN args.paths :
      LET u == Leads(args.elements, args.paths[i])
      IN  /\ u \in DOMAIN returned.elementMap
          /\ returned.elementMap[u]
               = (IF args.paths[i] = << "root" >> THEN (10 :> 1 @@ 14 :> 0)
                  ELSE getWorldTransform(args.paths[i]))

\* C26: at most one run attempt is in flight.
C26_OneRunInFlight == Len(runs) <= 1

\* C27: a call of onRun while the script state is not 'loaded' changes
\* neither the result nor the attempts in flight and sends no request; and
\* every attempt that extracts or has sent a request was started on a loaded
\* graph info, whose node ids its inputs carry and whose id its target names.
C27_NoRunUnlessLoaded ==
  [][ /\ settled'.pc = "returned" =>
           /\ scriptInfo.type # "loaded"
           /\ result' = result /\ runs' = runs /\ state' = state
           /\ lastRequest' = NoRequest /\ target' = NoTarget
      /\ \A r \in DOMAIN runs' :
           /\ runs'[r].code \in Graphs
           /\ \A n \in DOMAIN runs'[r].inputs :
                runs'[r].inputs[n].nodeId = inputs(runs'[r].code)[n].id
      /\ (target'.call = "run" /\ props.script = "FolderGraph") =>
           target'.value.path \in Graphs
      /\ (runs' # runs /\ Len(runs') > Len(runs)) => scriptInfo.type = "loaded" ]_vars

\* C27 witness: onRun was just called while the script was loading, with the
\* result still 'init' and no attempt in flight
C27_Witness ==
  /\ settled.pc = "returned"
  /\ scriptInfo.type = "loading"
  /\ result.type = "init"
  /\ runs = << >>
  /\ lastRequest = NoRequest

\* the default of a declared input: none for a select or get input and for an
\* empty declared value
DefaultEntry(input) ==
  IF isSelect(input) \/ isGet(input) \/ input.value = "" THEN Undefined
  ELSE IF input.type = "boolean" THEN Bool(input.value)
  ELSE Str(input.value)

\* C28: when an info fetch leaves the script state 'loaded', the input state
\* is exactly the defaults of the fetched graph info (nothing of the earlier
\* input state is kept), with no entry for a select or get input or for an
\* input declared with an empty value, and the run result is 'init'.
C28_LoadedResetsInputs ==
  (infoFrom.fetch # "none" /\ scriptInfo.type = "loaded") =>
    /\ \A id \in InputIds :
         IF \E n \in DOMAIN inputs(scriptInfo.data) : inputs(scriptInfo.data)[n].id = id
           THEN \E n \in DOMAIN inputs(scriptInfo.data) :
                  /\ inputs(scriptInfo.data)[n].id = id
                  /\ state[id] = DefaultEntry(inputs(scriptInfo.data)[n])
           ELSE state[id] = Undefined
    /\ result = RunResult("init", NoRun, NoError)

\* C28 witness: the graph with a select input and a get input was just loaded
\* while a run started on edited inputs is in flight; the input state has no
\* entry
C28_Witness ==
  /\ infoFrom.fetch # "none"
  /\ scriptInfo = ScriptResult("loaded", "gB")
  /\ state = emptyState
  /\ result.type = "init"
  /\ \E r \in DOMAIN runs : runs[r].state # emptyState

====
